---- MODULE Spec2Model ----
(***************************************************************************)
(* micro-api-gateway-middleware: verification of gateway-signed requests.  *)
(*                                                                         *)
(* The module models the verifier returned by module.exports (index.js,    *)
(* and its later variant with the skip_verification option): the shared    *)
(* key cache of get_public_key, the suspension points of the key fetch,    *)
(* and the gate sequence run on every request.                             *)
(***************************************************************************)
EXTENDS Integers, Sequences, FiniteSets, TLC

(***************************************************************************)
(* Bounds of the model.  Time is counted in abstract milliseconds.         *)
(***************************************************************************)
GracePeriod == 1
MaxTicks == 2

\* The calls that may be in flight at once, and the one of the sequential runs.
Calls == {"c1", "c2"}
FirstCall == "c1"

\* The clock of a running process is far beyond grace_period after the epoch
\* (last_public_key_update starts at 0).
StartNow == GracePeriod + 1
EndNow == StartNow + MaxTicks

(***************************************************************************)
(* JavaScript values.  Strings are TLA+ strings; null is a value apart     *)
(* from every string a header or a response body can hold.                 *)
(***************************************************************************)
null == "<null>"

Truthy(v) == v # null /\ v # ""

\* A header value: what typeof answers for it, and its String() conversion.
undefined == [typeof |-> "undefined", str |-> "undefined"]
Str(s) == [typeof |-> "string", str |-> s]
Arr(s) == [typeof |-> "object", str |-> s]

\* JavaScript numbers that may be NaN.
NaN == [nan |-> TRUE, n |-> 0]
Num(i) == [nan |-> FALSE, n |-> i]

(***************************************************************************)
(* Default options (index.js 14-24).                                       *)
(***************************************************************************)
time_header == "x-micro-api-gateway-signature-time"
hash_header == "x-micro-api-gateway-request-hash"
signature_header == "x-micro-api-gateway-signature"

internal_server_error == 500
bad_request == 400

(***************************************************************************)
(* request.headers: an object, kept as the sequence of its <<name, value>> *)
(* pairs in insertion order, names unique.                                 *)
(***************************************************************************)
HasHeader(headers, name) == \E i \in 1..Len(headers) : headers[i][1] = name

HeaderValue(headers, name) ==
    IF HasHeader(headers, name)
    THEN headers[CHOOSE i \in 1..Len(headers) : headers[i][1] = name][2]
    ELSE undefined

\* obj[name] = value on an object held as a pair sequence.
SetProperty(obj, name, value) ==
    IF HasHeader(obj, name)
    THEN [i \in 1..Len(obj) |-> IF obj[i][1] = name THEN <<name, value>> ELSE obj[i]]
    ELSE Append(obj, <<name, value>>)

\* Mutation of SelectHeaders: a listed header the request lacks is signed as the
\* empty string.
SelectHeaders_AbsentAsEmpty(names, headers, acc) ==
    acc \o [ i \in 1..Len(names) |->
              << names[i], IF HasHeader(headers, names[i])
                           THEN HeaderValue(headers, names[i])
                           ELSE Str("") >> ]

\* options.headers_to_verify.reduce( ... , {} )
RECURSIVE SelectHeaders(_, _, _)
SelectHeaders(names, headers, acc) ==
    IF names = <<>> THEN acc
    ELSE SelectHeaders(Tail(names), headers,
            IF HeaderValue(headers, Head(names)).typeof # "undefined"
            THEN SetProperty(acc, Head(names), HeaderValue(headers, Head(names)))
            ELSE acc)

(***************************************************************************)
(* json-stable-stringify: keys in sorted order.  The order of the header   *)
(* names of the model is their lexicographic order.                        *)
(***************************************************************************)
SortedNames ==
    << "connection", "x-a", "x-b", hash_header, signature_header, time_header >>

Rank(name) == CHOOSE i \in 1..Len(SortedNames) : SortedNames[i] = name

JsonValue(v) ==
    IF v.typeof = "string" THEN "\"" \o v.str \o "\"" ELSE "[\"" \o v.str \o "\"]"

RECURSIVE JsonMembers(_, _)
JsonMembers(obj, ranks) ==
    IF ranks = {} THEN ""
    ELSE LET r == CHOOSE x \in ranks : \A y \in ranks : x <= y
             i == CHOOSE k \in 1..Len(obj) : Rank(obj[k][1]) = r
             rest == ranks \ {r}
         IN  "\"" \o obj[i][1] \o "\":" \o JsonValue(obj[i][2])
                \o (IF rest = {} THEN "" ELSE ",")
                \o JsonMembers(obj, rest)

\* Mutation of json_stable_stringify: JSON.stringify, keys in insertion order.
RECURSIVE MembersAsInserted(_)
MembersAsInserted(obj) ==
    IF obj = <<>> THEN ""
    ELSE "\"" \o Head(obj)[1] \o "\":" \o JsonValue(Head(obj)[2])
            \o (IF Tail(obj) = <<>> THEN "" ELSE ",")
            \o MembersAsInserted(Tail(obj))

json_stable_stringify_AsInserted(obj) == "{" \o MembersAsInserted(obj) \o "}"

json_stable_stringify(obj) ==
    "{" \o JsonMembers(obj, { Rank(obj[i][1]) : i \in 1..Len(obj) }) \o "}"

\* Mutation of request_as_string: method and url stay out of the string.
request_as_string_HeadersOnly(req, headers_to_verify) ==
    json_stable_stringify(SelectHeaders(headers_to_verify, req.headers, <<>>))

\* [ request.method, request.url, json_stable_stringify( headers_to_verify ) ].join( ':::' )
request_as_string(req, headers_to_verify) ==
    req.method \o ":::" \o req.url \o ":::"
        \o json_stable_stringify(SelectHeaders(headers_to_verify, req.headers, <<>>))

\* The earlier variant signs every header but four:
\* extend( true, {}, request.headers ), then delete of the hash header, the
\* signature header, 'connection' and 'transfer-encoding'.
DeletedHeaders == {hash_header, signature_header, "connection", "transfer-encoding"}

request_as_string_000(req) ==
    req.method \o ":::" \o req.url \o ":::"
        \o json_stable_stringify(
              SelectSeq(req.headers, LAMBDA h : h[1] \notin DeletedHeaders))

(***************************************************************************)
(* crypto: SHA-256 as a collision-free digest, RSA-SHA256 as an            *)
(* unforgeable signature, one per (key, digest).                           *)
(***************************************************************************)
SHA256Base64(s) == "sha256(" \o s \o ")"

request_hash(req, headers_to_verify) ==
    SHA256Base64(request_as_string(req, headers_to_verify))

request_hash_000(req) == SHA256Base64(request_as_string_000(req))

GatewayKey == "PEM-A"
OtherKey == "PEM-B"
MalformedKey == "not-a-pem"

IsPEM(key) == key \in {GatewayKey, OtherKey}

Sign(key, digest) == "rsa[" \o key \o "](" \o digest \o ")"

\* crypto.createVerify( 'RSA-SHA256' ).update( digest ).verify( key, signature, 'base64' ):
\* throws on a key it cannot decode, otherwise answers whether the signature fits.
CryptoVerify(key, digest, signature) ==
    IF ~IsPEM(key) THEN "throw"
    ELSE IF signature = Sign(key, digest) THEN "true" ELSE "false"

(***************************************************************************)
(* parseInt on the strings the time header takes in the model: decimal     *)
(* digits parse to their number, anything else to NaN.                     *)
(***************************************************************************)
parseInt(s) ==
    IF \E i \in 0..(EndNow + 1) : ToString(i) = s
    THEN Num(CHOOSE i \in 0..(EndNow + 1) : ToString(i) = s)
    ELSE NaN

\* now - parseInt( ... )
Minus(a, b) == IF b.nan THEN NaN ELSE Num(a - b.n)

\* a > b on numbers: false whenever a is NaN.
GreaterThan(a, b) == ~a.nan /\ a.n > b

(***************************************************************************)
(* The response sink: every assignment of statusCode, every setHeader call *)
(* and every end call made on it, in order.                                *)
(***************************************************************************)
FreshResponse == [statusCode |-> <<>>, setHeader |-> <<>>, end |-> <<>>]

\* JSON.stringify( { error: ..., message: ... } )
JSONStringify(error, message) ==
    "{\"error\":\"" \o error \o "\",\"message\":\"" \o message \o "\"}"

\* Mutation of Reject: the failure branch returns false without ending the response.
Reject_NoEnd(response, status, error, message, ran) ==
    [ ret |-> "false",
      response |-> [ statusCode |-> Append(response.statusCode, status),
                     setHeader |-> Append(response.setHeader,
                                          <<"content-type", "application/json">>),
                     end |-> response.end ],
      ran |-> ran ]

\* response.statusCode = status; response.setHeader( 'content-type', 'application/json' );
\* response.end( JSON.stringify( { error, message } ) ); return false;
Reject(response, status, error, message, ran) ==
    [ ret |-> "false",
      response |-> [ statusCode |-> Append(response.statusCode, status),
                     setHeader |-> Append(response.setHeader,
                                          <<"content-type", "application/json">>),
                     end |-> Append(response.end, JSONStringify(error, message)) ],
      ran |-> ran ]

\* Mutation of Accept: the success path answers the request itself.
Accept_EndsResponse(response, ran) ==
    [ ret |-> "true",
      response |-> [ statusCode |-> Append(response.statusCode, 200),
                     setHeader |-> response.setHeader,
                     end |-> Append(response.end, "") ],
      ran |-> ran ]

\* return true;
Accept(response, ran) == [ret |-> "true", response |-> response, ran |-> ran]

(***************************************************************************)
(* The gates of the verifier, in the order of the code.                    *)
(***************************************************************************)
NoPublicKey(public_key) == ~Truthy(public_key)

\* Mutation of NotAString: the presence gates let every value through.
NotAString_Never(value) == FALSE

NotAString(value) == value.typeof # "string"

\* Mutation of Expired: >= in place of >.
Expired_AtGrace(time_delta, grace_period) ==
    ~time_delta.nan /\ time_delta.n >= grace_period

Expired(time_delta, grace_period) == GreaterThan(time_delta, grace_period)

\* Mutation of HashMismatch: the digest is compared with itself.
HashMismatch_Self(computed, incoming) == computed # computed

HashMismatch(computed, incoming) == computed # incoming

\* Mutation of StatusMissingPublicKey: the key failure is blamed on the caller.
StatusMissingPublicKey_BadRequest == bad_request

StatusMissingPublicKey == internal_server_error

\* The verifier from the return of get_public_key to its own return.
\* ran: the components the call has run so far.
VerifyRequest(v, opts, req, public_key, now, response, ran) ==
    IF NoPublicKey(public_key)
    THEN Reject(response, StatusMissingPublicKey, "missing public key",
                "Could not obtain public key from provided endpoint.", ran)
    ELSE
    LET incoming_request_hash == HeaderValue(req.headers, hash_header)
        incoming_request_hash_signature == HeaderValue(req.headers, signature_header)
    IN
    IF NotAString(incoming_request_hash)
    THEN Reject(response, bad_request, "missing or malformed request hash",
                "The request does not have a proper request hash header.", ran)
    ELSE IF NotAString(incoming_request_hash_signature)
    THEN Reject(response, bad_request, "missing or malformed request hash signature",
                "The request does not have a proper request hash signature header.", ran)
    ELSE
    LET digest == IF v = "part_000"
                  THEN request_hash_000(req)
                  ELSE request_hash(req, opts.headers_to_verify)
        time_delta == Minus(now, parseInt(HeaderValue(req.headers, time_header).str))
        ran2 == ran \cup {"canonicalize", "hash"}
    IN
    IF Expired(time_delta, opts.grace_period)
    THEN Reject(response, bad_request, "expired request",
                "The request from the API gateway has expired.", ran2)
    ELSE IF HashMismatch(digest, incoming_request_hash.str)
    THEN Reject(response, bad_request, "invalid request hash",
                "The request from the API gateway has an invalid request hash.", ran2)
    ELSE
    LET request_hash_verified ==
            CryptoVerify(public_key, digest, incoming_request_hash_signature.str)
        ran3 == ran2 \cup {"verify"}
    IN
    IF request_hash_verified = "throw"
    THEN [ret |-> "threw", response |-> response, ran |-> ran3]
    ELSE IF request_hash_verified = "false"
    THEN Reject(response, bad_request, "invalid request hash signature",
                "The request hash from the API gateway could not be verified.", ran3)
    ELSE Accept(response, ran3)

(***************************************************************************)
(* Configurations and requests of the model.                               *)
(***************************************************************************)
Endpoint == "https://gateway/public.pem"

\* Object.assign( { defaults }, _options )
OptionSpace ==
    [ public_key : {null, GatewayKey},
      public_key_endpoint : {null, Endpoint},
      headers_to_verify : {<<>>, <<"x-a">>},
      grace_period : {GracePeriod},
      skip_verification : BOOLEAN ]

\* Mutation of ConstructionThrows: the check of the key source is left out.
ConstructionThrows_Never(opts) == FALSE

\* if ( !( options.public_key_endpoint || options.public_key ) ) throw new Error( ... )
ConstructionThrows(opts) ==
    ~(Truthy(opts.public_key_endpoint) \/ Truthy(opts.public_key))

\* What the key endpoint may answer with a success status.
Bodies == {"", GatewayKey, OtherKey, MalformedKey}

Request(method, url, time, hash, signature) ==
    [ method |-> method, url |-> url,
      headers |-> SelectSeq( << <<"x-a", Str("1")>>,
                                <<time_header, time>>,
                                <<hash_header, hash>>,
                                <<signature_header, signature>> >>,
                             LAMBDA h : h[2].typeof # "undefined") ]

\* The digest the gateway computes for GET /orders, and that of another request.
GoodDigest(htv) == request_hash(Request("GET", "/orders", undefined, undefined, undefined), htv)
WrongDigest(htv) == request_hash(Request("POST", "/orders", undefined, undefined, undefined), htv)

TimeChoices ==
    { Str(ToString(StartNow)), Str(ToString(StartNow - GracePeriod)), Str("abc"), undefined }

HashChoices(htv) ==
    { Str(GoodDigest(htv)), Str(WrongDigest(htv)), Arr(GoodDigest(htv)), undefined }

SignatureChoices(htv) ==
    { Str(Sign(GatewayKey, GoodDigest(htv))), Str(Sign(OtherKey, GoodDigest(htv))),
      Str(Sign(GatewayKey, WrongDigest(htv))), Arr(Sign(GatewayKey, GoodDigest(htv))),
      undefined }

\* How many of the three protocol headers differ from those of the request as
\* the gateway signed and sent it.
Deviations(time, hash, signature, htv) ==
      (IF time = Str(ToString(StartNow)) THEN 0 ELSE 1)
    + (IF hash = Str(GoodDigest(htv)) THEN 0 ELSE 1)
    + (IF signature = Str(Sign(GatewayKey, GoodDigest(htv))) THEN 0 ELSE 1)

\* The requests that arrive: the gateway's, and those that differ from it in at
\* most n of the protocol headers.
RequestPool(htv, n) ==
    { Request("GET", "/orders", x[1], x[2], x[3]) :
        x \in { y \in TimeChoices \X HashChoices(htv) \X SignatureChoices(htv) :
                    Deviations(y[1], y[2], y[3], htv) <= n } }

PoolNoHeaders == RequestPool(<<>>, 3)
PoolWithHeader == RequestPool(<<"x-a">>, 3)

\* The requests of the sequential runs.
SequentialPool(htv) == IF htv = <<>> THEN PoolNoHeaders ELSE PoolWithHeader

\* The requests of the concurrent runs: the gateway's request, the same signed
\* one grace period earlier, and one request stopped by each later gate.
ConcurrentPool ==
    { Request("GET", "/orders", Str(ToString(StartNow)),
              Str(GoodDigest(<<>>)), Str(Sign(GatewayKey, GoodDigest(<<>>)))),
      Request("GET", "/orders", Str(ToString(StartNow - GracePeriod)),
              Str(GoodDigest(<<>>)), Str(Sign(GatewayKey, GoodDigest(<<>>)))),
      Request("GET", "/orders", Str(ToString(StartNow)),
              Str(WrongDigest(<<>>)), Str(Sign(GatewayKey, GoodDigest(<<>>)))),
      Request("GET", "/orders", Str(ToString(StartNow)),
              Str(GoodDigest(<<>>)), Str(Sign(OtherKey, GoodDigest(<<>>)))),
      Request("GET", "/orders", Str(ToString(StartNow)),
              undefined, Str(Sign(GatewayKey, GoodDigest(<<>>)))),
      Request("GET", "/orders", Str(ToString(StartNow)),
              Str(GoodDigest(<<>>)), Arr(Sign(GatewayKey, GoodDigest(<<>>)))) }

(***************************************************************************)
(* Requests for the canonical string: what the gateway signs under each    *)
(* signing policy, and what becomes of it on the way.                      *)
(***************************************************************************)
\* The signing policies: the header lists of index.js, and the earlier variant
\* that signs every header but four.
HeaderLists ==
    { <<>>, <<"x-a">>, <<"x-a", "x-b">>, <<"x-b", "x-a">>, <<"x-a", time_header>> }

Policies == ({"index.js", "part_001"} \X HeaderLists) \cup { <<"part_000", <<>>>> }

\* The digest the verifier of policy p computes for a request.
PolicyDigest(p, req) ==
    IF p[1] = "part_000" THEN request_hash_000(req) ELSE request_hash(req, p[2])

\* The request as the gateway sends it: its own headers, then the digest of
\* its canonical string and the signature of that digest.
GatewayRequest(p, method, url, headers) ==
    LET unsigned == [method |-> method, url |-> url, headers |-> headers]
        digest == PolicyDigest(p, unsigned)
    IN  [ unsigned EXCEPT !.headers =
            headers \o << <<hash_header, Str(digest)>>,
                          <<signature_header, Str(Sign(GatewayKey, digest))>> >> ]

Reverse(seq) == [i \in 1..Len(seq) |-> seq[Len(seq) + 1 - i]]

WithHeader(req, name, value) ==
    [req EXCEPT !.headers = SetProperty(req.headers, name, value)]

\* The request, and the requests that differ from it in one place while they
\* carry its hash and signature headers.
Arrivals(req) ==
    { req,
      [req EXCEPT !.method = "POST"],
      [req EXCEPT !.url = "/other"],
      WithHeader(req, "x-a", Str("2")),
      WithHeader(req, "x-b", Str("2")),
      WithHeader(req, "connection", Str("close")),
      WithHeader(req, time_header, Str(ToString(StartNow - GracePeriod))),
      WithHeader(req, time_header, Str(ToString(StartNow - GracePeriod - 1))),
      WithHeader(req, time_header, Str("abc")),
      WithHeader(req, time_header, Str(ToString(EndNow))),
      [req EXCEPT !.headers = Reverse(req.headers)] }

CanonPool ==
    [ p \in Policies |->
        UNION { Arrivals(GatewayRequest(p, "GET", "/orders", headers)) :
                  headers \in { << <<"x-a", Str("1")>>,
                                   <<time_header, Str(ToString(StartNow))>> >>,
                                << <<"x-a", Str("1")>>, <<"x-b", Str("1")>>,
                                   <<time_header, Str(ToString(StartNow))>> >> } } ]

(***************************************************************************)
(* State.                                                                  *)
(***************************************************************************)
VARIABLES
    variant,                    \* "index.js", "part_001" (skip_verification), or
                                \* "part_000" (the earlier one, signing all headers but four)
    SKIP_GATEWAY_VERIFICATION,  \* process.env.SKIP_GATEWAY_VERIFICATION is set
    options,
    now,                        \* the clock, +new Date()
    fetched_public_key,
    last_public_key_update,
    pc,                         \* where each call stands
    request,                    \* each call's request
    response,                   \* each call's response sink
    gpk_now,                    \* get_public_key's local now (0 outside of it)
    public_key,                 \* the verifier's local public_key
    verify_now,                 \* the verifier's local now
    result,                     \* what the call's promise settled to
    ran,                        \* the components the call has run
    fetches,                    \* the fetch calls the call has issued
    settled,                    \* how the call's key fetch ended
    since_failure,              \* history of the cache since the last failed fetch
    refresh_failed,             \* a fetch has failed and none has stored a key since
    verifier                    \* what construction yielded: "none" before it

vars == << variant, SKIP_GATEWAY_VERIFICATION, options, now, fetched_public_key,
           last_public_key_update, pc, request, response, gpk_now, public_key,
           verify_now, result, ran, fetches, settled, since_failure,
           refresh_failed, verifier >>

config == << variant, SKIP_GATEWAY_VERIFICATION, options, verifier >>

NoRequest == [method |-> "", url |-> "", headers |-> <<>>]

\* The state after construction.  The later variant differs from index.js in
\* its bypass alone, and is run with its bypass switched on.
Constructed ==
    /\ variant \in {"index.js", "part_001"}
    /\ SKIP_GATEWAY_VERIFICATION \in BOOLEAN
    /\ options \in { o \in OptionSpace : ~ConstructionThrows(o) }
    /\ variant = "index.js" => ~options.skip_verification
    /\ variant = "part_001" => ~SKIP_GATEWAY_VERIFICATION /\ options.skip_verification
    /\ now = StartNow
    /\ fetched_public_key = null
    /\ last_public_key_update = 0
    /\ pc = [c \in Calls |-> "idle"]
    /\ request = [c \in Calls |-> NoRequest]
    /\ response = [c \in Calls |-> FreshResponse]
    /\ gpk_now = [c \in Calls |-> 0]
    /\ public_key = [c \in Calls |-> null]
    /\ verify_now = [c \in Calls |-> 0]
    /\ result = [c \in Calls |-> "pending"]
    /\ ran = [c \in Calls |-> {}]
    /\ fetches = [c \in Calls |-> 0]
    /\ settled = [c \in Calls |-> "none"]
    /\ since_failure = "none"
    /\ refresh_failed = FALSE
    /\ verifier = "function"

\* Sequential runs take every configuration, concurrent runs those that sign
\* no further header.
InitSeq == Constructed

Init == Constructed /\ options.headers_to_verify = <<>>

(***************************************************************************)
(* get_public_key                                                          *)
(***************************************************************************)
\* Mutation of Bypass: index.js reads the option in place of the environment.
Bypass_OptionOnly(v, env_skip, opts) == opts.skip_verification

\* if ( process.env.SKIP_GATEWAY_VERIFICATION ) / if ( options.skip_verification )
Bypass(v, env_skip, opts) ==
    IF v = "index.js" THEN env_skip
    ELSE IF v = "part_001" THEN opts.skip_verification
    ELSE FALSE

\* Mutation of HasStaticKey: a configured endpoint takes precedence.
HasStaticKey_UnlessEndpoint(opts) ==
    Truthy(opts.public_key) /\ ~Truthy(opts.public_key_endpoint)

\* if ( options.public_key ) return options.public_key;
HasStaticKey(opts) == Truthy(opts.public_key)

\* Mutation of NeedsFetch: >= in place of >.
NeedsFetch_AtGrace(key, time_since_last_public_key_update, grace_period) ==
    ~Truthy(key) \/ time_since_last_public_key_update >= grace_period

\* Mutation of NeedsFetch: a key in the cache is returned whatever its age.
NeedsFetch_OnlyWhenEmpty(key, time_since_last_public_key_update, grace_period) ==
    ~Truthy(key)

\* if ( !fetched_public_key || time_since_last_public_key_update > options.grace_period )
NeedsFetch(key, time_since_last_public_key_update, grace_period) ==
    ~Truthy(key) \/ time_since_last_public_key_update > grace_period

\* The call stays as it was, apart from the fields named.
Locals(c, req, resp, key, vnow, res, r) ==
    /\ request' = [request EXCEPT ![c] = req]
    /\ response' = [response EXCEPT ![c] = resp]
    /\ public_key' = [public_key EXCEPT ![c] = key]
    /\ verify_now' = [verify_now EXCEPT ![c] = vnow]
    /\ result' = [result EXCEPT ![c] = res]
    /\ ran' = [ran EXCEPT ![c] = r]

\* The verifier is called with (request, response): the bypass check, then
\* get_public_key up to its return or to its await of fetch.
Call(c, req) ==
    /\ verifier = "function"
    /\ pc[c] = "idle"
    /\ IF Bypass(variant, SKIP_GATEWAY_VERIFICATION, options)
       THEN /\ pc' = [pc EXCEPT ![c] = "done"]
            /\ Locals(c, req,
                      IF variant = "part_001"
                      THEN [FreshResponse EXCEPT !.setHeader =
                                << <<"x-micro-api-gateway-verification-skipped", "true">> >>]
                      ELSE FreshResponse,
                      null, 0, "true", {})
            /\ UNCHANGED << fetched_public_key, last_public_key_update, gpk_now,
                            fetches, since_failure >>
       ELSE IF HasStaticKey(options)
       THEN /\ pc' = [pc EXCEPT ![c] = "resume"]
            /\ Locals(c, req, FreshResponse, options.public_key, 0, "pending",
                      {"get_public_key"})
            /\ UNCHANGED << fetched_public_key, last_public_key_update, gpk_now,
                            fetches, since_failure >>
       ELSE /\ gpk_now' = [gpk_now EXCEPT ![c] = now]
            /\ since_failure' = "none"
            /\ IF NeedsFetch(fetched_public_key, now - last_public_key_update,
                             options.grace_period)
               THEN /\ fetched_public_key' = null
                    /\ fetches' = [fetches EXCEPT ![c] = @ + 1]
                    /\ pc' = [pc EXCEPT ![c] = "fetch"]
                    /\ Locals(c, req, FreshResponse, null, 0, "pending",
                              {"get_public_key"})
               ELSE /\ pc' = [pc EXCEPT ![c] = "resume"]
                    /\ Locals(c, req, FreshResponse, fetched_public_key, 0, "pending",
                              {"get_public_key"})
                    /\ UNCHANGED << fetched_public_key, fetches >>
            /\ UNCHANGED last_public_key_update
    /\ UNCHANGED << config, now, settled, refresh_failed >>

\* Mutation of FetchFailed: the failure path returns the cache without clearing it.
FetchFailed_KeepsCache(c, how) ==
    /\ public_key' = [public_key EXCEPT ![c] = fetched_public_key]
    /\ pc' = [pc EXCEPT ![c] = "resume"]
    /\ settled' = [settled EXCEPT ![c] = how]
    /\ since_failure' = "failed"
    /\ refresh_failed' = TRUE
    /\ UNCHANGED << config, now, fetched_public_key, last_public_key_update, request,
                    response, gpk_now, verify_now, result, ran, fetches >>

\* Mutation of FetchFailed: the first failure of a call is followed by a second
\* fetch of the same call.
FetchFailed_RetriesOnce(c, how) ==
    IF fetches[c] < 2
    THEN /\ fetches' = [fetches EXCEPT ![c] = @ + 1]
         /\ pc' = [pc EXCEPT ![c] = "fetch"]
         /\ UNCHANGED << config, now, fetched_public_key, last_public_key_update, request,
                         response, gpk_now, public_key, verify_now, result, ran, settled,
                         since_failure, refresh_failed >>
    ELSE /\ fetched_public_key' = null
         /\ public_key' = [public_key EXCEPT ![c] = null]
         /\ pc' = [pc EXCEPT ![c] = "resume"]
         /\ settled' = [settled EXCEPT ![c] = how]
         /\ since_failure' = "failed"
         /\ refresh_failed' = TRUE
         /\ UNCHANGED << config, now, last_public_key_update, request, response, gpk_now,
                         verify_now, result, ran, fetches >>

\* Mutation of FetchFailed: a key that another call has stored meanwhile is left
\* in the cache.
FetchFailed_SparesStoredKey(c, how) ==
    /\ UNCHANGED fetched_public_key
    /\ public_key' = [public_key EXCEPT ![c] = null]
    /\ pc' = [pc EXCEPT ![c] = "resume"]
    /\ settled' = [settled EXCEPT ![c] = how]
    /\ since_failure' = "failed"
    /\ refresh_failed' = ~Truthy(fetched_public_key)
    /\ UNCHANGED << config, now, last_public_key_update, request, response, gpk_now,
                    verify_now, result, ran, fetches >>

\* get_public_key ends without a key: fetched_public_key = null; return fetched_public_key;
FetchFailed(c, how) ==
    /\ fetched_public_key' = null
    /\ public_key' = [public_key EXCEPT ![c] = null]
    /\ pc' = [pc EXCEPT ![c] = "resume"]
    /\ settled' = [settled EXCEPT ![c] = how]
    /\ since_failure' = "failed"
    /\ refresh_failed' = TRUE
    /\ UNCHANGED << config, now, last_public_key_update, request, response, gpk_now,
                    verify_now, result, ran, fetches >>

\* await fetch( ... ) resolves with a response whose ok is true: await text() next.
FetchOk(c) ==
    /\ pc[c] = "fetch"
    /\ pc' = [pc EXCEPT ![c] = "text"]
    /\ UNCHANGED << config, now, fetched_public_key, last_public_key_update, request,
                    response, gpk_now, public_key, verify_now, result, ran, fetches,
                    settled, since_failure, refresh_failed >>

\* await fetch( ... ) resolves with a response whose ok is false.
FetchNotOk(c) ==
    /\ pc[c] = "fetch"
    /\ FetchFailed(c, "not ok")

\* await fetch( ... ) rejects: catch( ex ).
FetchThrows(c) ==
    /\ pc[c] = "fetch"
    /\ FetchFailed(c, "threw")

\* await public_key_request.text() rejects: catch( ex ).
TextThrows(c) ==
    /\ pc[c] = "text"
    /\ FetchFailed(c, "threw")

\* Mutation of TextOk: the key is stored, the time of the update is not.
TextOk_KeyWithoutTime(c, body) ==
    /\ pc[c] = "text"
    /\ fetched_public_key' = body
    /\ public_key' = [public_key EXCEPT ![c] = body]
    /\ pc' = [pc EXCEPT ![c] = "resume"]
    /\ since_failure' =
            IF Truthy(body) /\ since_failure = "failed" THEN "refilled" ELSE since_failure
    /\ refresh_failed' = (refresh_failed /\ ~Truthy(body))
    /\ settled' = [settled EXCEPT ![c] = "ok"]
    /\ UNCHANGED << config, now, last_public_key_update, request, response, gpk_now,
                    verify_now, result, ran, fetches >>

\* await public_key_request.text() resolves with the body.
TextOk(c, body) ==
    /\ pc[c] = "text"
    /\ fetched_public_key' = body
    /\ last_public_key_update' =
            IF Truthy(body) THEN gpk_now[c] ELSE last_public_key_update
    /\ public_key' = [public_key EXCEPT ![c] = body]
    /\ pc' = [pc EXCEPT ![c] = "resume"]
    /\ since_failure' =
            IF Truthy(body) /\ since_failure = "failed" THEN "refilled" ELSE since_failure
    /\ refresh_failed' = (refresh_failed /\ ~Truthy(body))
    /\ settled' = [settled EXCEPT ![c] = "ok"]
    /\ UNCHANGED << config, now, request, response, gpk_now, verify_now, result, ran,
                    fetches >>

(***************************************************************************)
(* The verifier after await get_public_key().                              *)
(***************************************************************************)
Resume(c) ==
    /\ pc[c] = "resume"
    /\ LET out == VerifyRequest(variant, options, request[c], public_key[c], now, response[c], ran[c])
       IN  /\ result' = [result EXCEPT ![c] = out.ret]
           /\ response' = [response EXCEPT ![c] = out.response]
           /\ ran' = [ran EXCEPT ![c] = out.ran]
    /\ verify_now' = [verify_now EXCEPT ![c] = now]
    /\ gpk_now' = [gpk_now EXCEPT ![c] = 0]
    /\ pc' = [pc EXCEPT ![c] = "done"]
    /\ UNCHANGED << config, now, fetched_public_key, last_public_key_update, request,
                    public_key, fetches, settled, since_failure, refresh_failed >>

\* The caller has the verdict; the next request may arrive.
Return(c) ==
    /\ pc[c] = "done"
    /\ pc' = [pc EXCEPT ![c] = "idle"]
    /\ Locals(c, NoRequest, FreshResponse, null, 0, "pending", {})
    /\ gpk_now' = [gpk_now EXCEPT ![c] = 0]
    /\ fetches' = [fetches EXCEPT ![c] = 0]
    /\ settled' = [settled EXCEPT ![c] = "none"]
    /\ UNCHANGED << config, now, fetched_public_key, last_public_key_update, since_failure,
                    refresh_failed >>

\* Time passes.
Tick ==
    /\ now < EndNow
    /\ now' = now + 1
    /\ UNCHANGED << config, fetched_public_key, last_public_key_update, pc, request,
                    response, gpk_now, public_key, verify_now, result, ran, fetches,
                    settled, since_failure, refresh_failed >>

\* A continuation is queued: get_public_key has returned to a verifier that
\* awaits it.  Continuations run before the event loop takes its next event.
ContinuationQueued == \E c \in Calls : pc[c] = "resume"

\* One step of call c, its request drawn from pool.
Step(c, pool) ==
    \/ /\ ~ContinuationQueued
       /\ \/ \E req \in pool : Call(c, req)
          \/ FetchOk(c)
          \/ FetchNotOk(c)
          \/ FetchThrows(c)
          \/ \E body \in Bodies : TextOk(c, body)
          \/ TextThrows(c)
    \/ Resume(c)
    \/ Return(c)

\* Calls run concurrently, one per inbound request.
Next ==
    \/ \E c \in Calls : Step(c, ConcurrentPool)
    \/ Tick

Spec == Init /\ [][Next]_vars

\* One request at a time.
NextSeq ==
    \/ Step(FirstCall, SequentialPool(options.headers_to_verify))
    \/ Tick

SpecSeq == InitSeq /\ [][NextSeq]_vars

\* Runs from before construction: module.exports is called with any options.
InitConstruct ==
    /\ variant \in {"index.js", "part_001"}
    /\ SKIP_GATEWAY_VERIFICATION \in BOOLEAN
    /\ options \in OptionSpace
    /\ variant = "index.js" => ~options.skip_verification
    /\ variant = "part_001" => ~SKIP_GATEWAY_VERIFICATION /\ options.skip_verification
    /\ now = StartNow
    /\ fetched_public_key = null
    /\ last_public_key_update = 0
    /\ pc = [c \in Calls |-> "idle"]
    /\ request = [c \in Calls |-> NoRequest]
    /\ response = [c \in Calls |-> FreshResponse]
    /\ gpk_now = [c \in Calls |-> 0]
    /\ public_key = [c \in Calls |-> null]
    /\ verify_now = [c \in Calls |-> 0]
    /\ result = [c \in Calls |-> "pending"]
    /\ ran = [c \in Calls |-> {}]
    /\ fetches = [c \in Calls |-> 0]
    /\ settled = [c \in Calls |-> "none"]
    /\ since_failure = "none"
    /\ refresh_failed = FALSE
    /\ verifier = "none"

\* module.exports( _options ): throws, or returns the verifier.
Construct ==
    /\ verifier = "none"
    /\ verifier' = IF ConstructionThrows(options) THEN "threw" ELSE "function"
    /\ UNCHANGED << variant, SKIP_GATEWAY_VERIFICATION, options, now, fetched_public_key,
                    last_public_key_update, pc, request, response, gpk_now, public_key,
                    verify_now, result, ran, fetches, settled, since_failure,
                    refresh_failed >>

NextConstruct ==
    \/ Construct
    \/ Step(FirstCall, SequentialPool(options.headers_to_verify))
    \/ Tick

SpecConstruct == InitConstruct /\ [][NextConstruct]_vars

\* Runs for the canonical string: the static key, every signing policy, two
\* requests side by side.
InitCanon ==
    /\ variant \in {"index.js", "part_001", "part_000"}
    /\ SKIP_GATEWAY_VERIFICATION = FALSE
    /\ options \in [ public_key : {GatewayKey},
                     public_key_endpoint : {null},
                     headers_to_verify : HeaderLists,
                     grace_period : {GracePeriod},
                     skip_verification : {FALSE} ]
    /\ <<variant, options.headers_to_verify>> \in Policies
    /\ now = StartNow
    /\ fetched_public_key = null
    /\ last_public_key_update = 0
    /\ pc = [c \in Calls |-> "idle"]
    /\ request = [c \in Calls |-> NoRequest]
    /\ response = [c \in Calls |-> FreshResponse]
    /\ gpk_now = [c \in Calls |-> 0]
    /\ public_key = [c \in Calls |-> null]
    /\ verify_now = [c \in Calls |-> 0]
    /\ result = [c \in Calls |-> "pending"]
    /\ ran = [c \in Calls |-> {}]
    /\ fetches = [c \in Calls |-> 0]
    /\ settled = [c \in Calls |-> "none"]
    /\ since_failure = "none"
    /\ refresh_failed = FALSE
    /\ verifier = "function"

NextCanon ==
    \/ \E c \in Calls :
          \/ /\ ~ContinuationQueued
             /\ \E req \in CanonPool[<<variant, options.headers_to_verify>>] : Call(c, req)
          \/ Resume(c)
          \/ Return(c)
    \/ Tick

SpecCanon == InitCanon /\ [][NextCanon]_vars

(***************************************************************************)
(* Vocabulary of the properties, spelled out from the protocol and not     *)
(* from the verifier's gates.                                              *)
(***************************************************************************)
BypassEnabled ==
    \/ variant = "index.js" /\ SKIP_GATEWAY_VERIFICATION
    \/ variant = "part_001" /\ options.skip_verification

Finished(c) == pc[c] = "done"

HashOf(c) == HeaderValue(request[c].headers, hash_header)
SignatureOf(c) == HeaderValue(request[c].headers, signature_header)
TimeOf(c) == parseInt(HeaderValue(request[c].headers, time_header).str)

\* method + ':::' + url + ':::' + the selected headers, serialized
CanonicalOf(c) ==
    request[c].method \o ":::" \o request[c].url \o ":::"
        \o json_stable_stringify(
              SelectHeaders(options.headers_to_verify, request[c].headers, <<>>))

DigestOf(c) == "sha256(" \o CanonicalOf(c) \o ")"

\* now - time header, at the verifier's reading of the clock
DeltaIs(c, d) == ~TimeOf(c).nan /\ verify_now[c] - TimeOf(c).n = d
DeltaWithinGrace(c) == ~TimeOf(c).nan /\ verify_now[c] - TimeOf(c).n <= options.grace_period
DeltaNotGreater(c) == TimeOf(c).nan \/ verify_now[c] - TimeOf(c).n <= options.grace_period

\* The signature header is the gateway-style signature of the digest under the
\* key this call obtained.
SignatureValid(c) ==
    /\ public_key[c] \in {GatewayKey, OtherKey}
    /\ SignatureOf(c).typeof = "string"
    /\ SignatureOf(c).str = "rsa[" \o public_key[c] \o "](" \o DigestOf(c) \o ")"

ErrorBody(kind) ==
    "{\"error\":\"" \o kind \o "\",\"message\":\""
      \o ( CASE kind = "missing public key" ->
                  "Could not obtain public key from provided endpoint."
             [] kind = "missing or malformed request hash" ->
                  "The request does not have a proper request hash header."
             [] kind = "missing or malformed request hash signature" ->
                  "The request does not have a proper request hash signature header."
             [] kind = "expired request" ->
                  "The request from the API gateway has expired."
             [] kind = "invalid request hash" ->
                  "The request from the API gateway has an invalid request hash."
             [] kind = "invalid request hash signature" ->
                  "The request hash from the API gateway could not be verified." )
      \o "\"}"

ErrorKinds ==
    { "missing public key", "missing or malformed request hash",
      "missing or malformed request hash signature", "expired request",
      "invalid request hash", "invalid request hash signature" }

\* The call wrote exactly this failure.
Failed(c, status, kind) ==
    /\ result[c] = "false"
    /\ response[c].statusCode = <<status>>
    /\ response[c].end = <<ErrorBody(kind)>>

(***************************************************************************)
(* C1.  With bypass disabled, a call returns true only if in that call     *)
(* get_public_key returned a non-empty key, the hash and signature headers *)
(* were strings, now - time header was not greater than grace_period, the  *)
(* digest of the canonical string equalled the hash header, and the        *)
(* signature header verified for that digest under the key the call        *)
(* obtained, whatever other calls did to the cache meanwhile.              *)
(***************************************************************************)
C1_TrueOnlyIfEveryGateHeld ==
    \A c \in Calls :
        (Finished(c) /\ result[c] = "true" /\ ~BypassEnabled) =>
            /\ public_key[c] # null /\ public_key[c] # ""
            /\ HashOf(c).typeof = "string"
            /\ SignatureOf(c).typeof = "string"
            /\ DeltaNotGreater(c)
            /\ DigestOf(c) = HashOf(c).str
            /\ SignatureValid(c)

\* A call accepted under a key that the cache no longer holds: another call
\* has replaced it since.
C1_Witness ==
    \E c \in Calls :
        /\ Finished(c) /\ result[c] = "true" /\ ~BypassEnabled
        /\ options.public_key = null
        /\ fetched_public_key # public_key[c]
        /\ settled[c] = "ok"

(***************************************************************************)
(* C2.  A request whose hash header is the digest of its canonical string, *)
(* whose signature header is a valid signature of that digest under the    *)
(* trusted key, and whose delta is at most grace_period, is answered true  *)
(* with the response untouched: no statusCode, no setHeader, no end.       *)
(***************************************************************************)
C2_ValidRequestAcceptedUntouched ==
    \A c \in Calls :
        ( /\ Finished(c)
          /\ HashOf(c) = Str(DigestOf(c))
          /\ SignatureValid(c)
          /\ DeltaWithinGrace(c) )
        => /\ result[c] = "true"
           /\ response[c] = [statusCode |-> <<>>, setHeader |-> <<>>, end |-> <<>>]

C2_Witness ==
    \E c \in Calls :
        /\ Finished(c) /\ ~BypassEnabled
        /\ HashOf(c) = Str(DigestOf(c)) /\ SignatureValid(c)
        /\ DeltaIs(c, options.grace_period)
        /\ options.headers_to_verify # <<>>
        /\ settled[c] = "ok"
        /\ result[c] = "true"

(***************************************************************************)
(* C3.  With bypass enabled every call returns true at once: it runs       *)
(* neither get_public_key nor the canonicalizer, the hash or the signature *)
(* verification, issues no fetch and leaves the key cache as constructed.  *)
(***************************************************************************)
C3_BypassSkipsEverything ==
    BypassEnabled =>
        /\ fetched_public_key = null
        /\ last_public_key_update = 0
        /\ \A c \in Calls :
              /\ pc[c] \in {"idle", "done"}
              /\ fetches[c] = 0
              /\ ran[c] = {}
              /\ Finished(c) => result[c] = "true" /\ response[c].end = <<>>

\* Bypassed with no static key, on a request that carries no hash header.
C3_Witness ==
    /\ BypassEnabled
    /\ options.public_key = null
    /\ \E c \in Calls :
          /\ Finished(c) /\ result[c] = "true"
          /\ HashOf(c).typeof = "undefined"

(***************************************************************************)
(* C4.  A call returns false exactly when it has written one error body:   *)
(* then it has set the status once, set content-type to application/json   *)
(* once and called end once with a JSON object of an error kind and its    *)
(* message.  A call that returns true has not called end, and no call      *)
(* ever calls end twice.                                                   *)
(***************************************************************************)
C4_FalseIffOneErrorBody ==
    \A c \in Calls :
        /\ Len(response[c].end) <= 1
        /\ Len(response[c].end) = 1 <=> result[c] = "false"
        /\ result[c] = "false" =>
              /\ Len(response[c].statusCode) = 1
              /\ response[c].setHeader = << <<"content-type", "application/json">> >>
              /\ \E kind \in ErrorKinds : response[c].end = <<ErrorBody(kind)>>
        /\ result[c] = "true" => response[c].end = <<>>

C4_Witness ==
    \E c \in Calls :
        /\ Finished(c)
        /\ Failed(c, 400, "invalid request hash signature")

(***************************************************************************)
(* C5.  The status follows the error kind: 500 with 'missing public key',  *)
(* 400 with every other kind; and 500 is written only when the key         *)
(* provider returned no key.                                               *)
(***************************************************************************)
C5_StatusByErrorKind ==
    \A c \in Calls :
        result[c] = "false" =>
            /\ \E kind \in ErrorKinds :
                  Failed(c, IF kind = "missing public key" THEN 500 ELSE 400, kind)
            /\ response[c].statusCode = <<500>> => public_key[c] \in {null, ""}

\* An endpoint that answers with an empty body leaves the call without a key.
C5_Witness ==
    \E c \in Calls :
        /\ Finished(c)
        /\ Failed(c, 500, "missing public key")
        /\ settled[c] = "ok"

(***************************************************************************)
(* C6.  No exception or rejected promise escapes a call: every finished    *)
(* call has resolved to true or to false, also when the signature library  *)
(* throws.                                                                 *)
(***************************************************************************)
C6_NoExceptionEscapes ==
    \A c \in Calls : Finished(c) => result[c] \in {"true", "false"}

(***************************************************************************)
(* C7.  With an endpoint only: a call of get_public_key that finds a key   *)
(* cached whose age is at most grace_period returns that key, issues no    *)
(* fetch and leaves the cache alone; a fetch is issued only at the start   *)
(* of a call that finds the cache empty or older than grace_period.        *)
(***************************************************************************)
Starts(c) == pc[c] = "idle" /\ pc'[c] # "idle" /\ ~BypassEnabled /\ options.public_key = null

CacheUsable ==
    /\ fetched_public_key \notin {null, ""}
    /\ now - last_public_key_update <= options.grace_period

C7_CachedKeyReusedWithinGrace ==
    [][ \A c \in Calls :
          /\ Starts(c) =>
                IF CacheUsable
                THEN /\ pc'[c] = "resume"
                     /\ public_key'[c] = fetched_public_key
                     /\ fetches'[c] = 0
                     /\ fetched_public_key' = fetched_public_key
                     /\ last_public_key_update' = last_public_key_update
                ELSE pc'[c] = "fetch" /\ fetches'[c] = 1
          /\ fetches'[c] > fetches[c] => Starts(c) /\ ~CacheUsable
      ]_vars

\* A call served from a cache whose age is exactly grace_period.
C7_Witness ==
    \E c \in Calls :
        /\ pc[c] = "resume" /\ fetches[c] = 0 /\ settled[c] = "none"
        /\ ~BypassEnabled /\ options.public_key = null
        /\ public_key[c] = fetched_public_key
        /\ public_key[c] \in Bodies \ {""}
        /\ gpk_now[c] - last_public_key_update = options.grace_period

(***************************************************************************)
(* C8.  When a key fetch fails (non-success status, or a throw), the cache *)
(* is empty right afterwards, the call gets no key and answers 500         *)
(* 'missing public key' with false, and the next call of get_public_key    *)
(* fetches again.                                                          *)
(***************************************************************************)
FetchFails(c) == settled[c] = "none" /\ settled'[c] \in {"not ok", "threw"}

FailedFetchClearsAndAnswers500(c) ==
    /\ FetchFails(c) =>
          /\ fetched_public_key' = null
          /\ public_key'[c] = null
          /\ pc'[c] = "resume"
    /\ (pc[c] = "resume" /\ settled[c] \in {"not ok", "threw"} /\ pc'[c] = "done") =>
          /\ result'[c] = "false"
          /\ response'[c].statusCode = <<500>>
          /\ response'[c].end = <<ErrorBody("missing public key")>>

C9_StaticKeyNoCaching ==
    options.public_key # null =>
        /\ fetched_public_key = null
        /\ last_public_key_update = 0
        /\ \A c \in Calls :
              /\ fetches[c] = 0
              /\ pc[c] \notin {"fetch", "text"}
              /\ (pc[c] \in {"resume", "done"} /\ ~BypassEnabled)
                    => public_key[c] = options.public_key
              /\ response[c].statusCode # <<500>>
              /\ response[c].end # <<ErrorBody("missing public key")>>

C9_Witness ==
    /\ options.public_key # null
    /\ options.public_key_endpoint # null
    /\ ~BypassEnabled
    /\ now > StartNow
    /\ \E c \in Calls : Finished(c) /\ result[c] = "true"

(***************************************************************************)
(* C10.  Freshness boundary: past the key and header-presence gates, a     *)
(* request with delta = grace_period is not rejected as expired, and one   *)
(* with delta = grace_period + 1 is rejected with 'expired request',       *)
(* status 400 and false.                                                   *)
(***************************************************************************)
PastPresenceGates(c) ==
    /\ Finished(c) /\ ~BypassEnabled
    /\ public_key[c] \notin {null, ""}
    /\ HashOf(c).typeof = "string"
    /\ SignatureOf(c).typeof = "string"

C10_FreshnessBoundary ==
    \A c \in Calls :
        PastPresenceGates(c) =>
            /\ DeltaIs(c, options.grace_period) =>
                  /\ response[c].end # <<ErrorBody("expired request")>>
                  /\ (HashOf(c).str = DigestOf(c) /\ SignatureValid(c)) => result[c] = "true"
            /\ DeltaIs(c, options.grace_period + 1) => Failed(c, 400, "expired request")

\* The same signed request, accepted at delta = grace_period by one call and
\* rejected at delta = grace_period + 1 by the other.
C10_Witness ==
    \E c, d \in Calls :
        /\ PastPresenceGates(c) /\ PastPresenceGates(d)
        /\ request[c] = request[d]
        /\ DeltaIs(c, options.grace_period) /\ result[c] = "true"
        /\ DeltaIs(d, options.grace_period + 1) /\ Failed(d, 400, "expired request")

(***************************************************************************)
(* Vocabulary for two requests side by side.                               *)
(***************************************************************************)
\* The header's value enters the canonical string under the policy of the run.
TakesPart(name) ==
    IF variant = "part_000"
    THEN name \notin {hash_header, signature_header, "connection", "transfer-encoding"}
    ELSE \E i \in 1..Len(options.headers_to_verify) : options.headers_to_verify[i] = name

\* Both calls have their verdict, reached with the same key at the same
\* reading of the clock.
SideBySide(c, d) ==
    /\ c # d
    /\ Finished(c) /\ Finished(d)
    /\ ~BypassEnabled
    /\ public_key[c] = public_key[d]
    /\ verify_now[c] = verify_now[d]

\* The request of d is that of c but for the method or the url.
MethodOrUrlMutated(c, d) ==
    /\ request[c].headers = request[d].headers
    /\ \/ request[c].method # request[d].method /\ request[c].url = request[d].url
       \/ request[c].method = request[d].method /\ request[c].url # request[d].url

\* The request of d is that of c but for the value of the header name.
HeaderMutated(c, d, name) ==
    /\ request[c].method = request[d].method
    /\ request[c].url = request[d].url
    /\ Len(request[c].headers) = Len(request[d].headers)
    /\ \E i \in 1..Len(request[c].headers) : request[c].headers[i][1] = name
    /\ \A i \in 1..Len(request[c].headers) :
          /\ request[c].headers[i][1] = request[d].headers[i][1]
          /\ (request[c].headers[i][2] # request[d].headers[i][2])
                <=> (request[c].headers[i][1] = name)

SignedNames == { SortedNames[i] : i \in 1..Len(SortedNames) } \ {hash_header, signature_header}

\* The time header of d is older than the grace period allows.
TooOld(d) == ~TimeOf(d).nan /\ verify_now[d] - TimeOf(d).n > options.grace_period

(***************************************************************************)
(* C11 as stated.  From a request that verifies, a change of the method,   *)
(* of the url, or of the value of any header that enters the canonical     *)
(* string, with the hash and signature headers left as they were, makes    *)
(* the call fail with 'invalid request hash', status 400.                  *)
(***************************************************************************)
C11_TamperingMeansInvalidHash ==
    \A c, d \in Calls :
        (SideBySide(c, d) /\ result[c] = "true") =>
            /\ MethodOrUrlMutated(c, d) => Failed(d, 400, "invalid request hash")
            /\ \A name \in SignedNames :
                  (TakesPart(name) /\ HeaderMutated(c, d, name))
                      => Failed(d, 400, "invalid request hash")

(***************************************************************************)
(* C11 as the code has it.  The same change makes the call fail with       *)
(* status 400: with 'expired request' when the changed header is the time  *)
(* header and its new value is older than the grace period allows, with    *)
(* 'invalid request hash' in every other case.                             *)
(***************************************************************************)
C11_TamperingRejected ==
    \A c, d \in Calls :
        (SideBySide(c, d) /\ result[c] = "true") =>
            /\ MethodOrUrlMutated(c, d) => Failed(d, 400, "invalid request hash")
            /\ \A name \in SignedNames :
                  (TakesPart(name) /\ HeaderMutated(c, d, name))
                      => IF name = time_header /\ TooOld(d)
                         THEN Failed(d, 400, "expired request")
                         ELSE Failed(d, 400, "invalid request hash")

\* A verified request beside the same request with a signed header changed,
\* which is turned away for its hash.
C11_Witness ==
    \E c, d \in Calls :
        /\ SideBySide(c, d) /\ result[c] = "true"
        /\ \E name \in SignedNames : TakesPart(name) /\ HeaderMutated(c, d, name)
        /\ Failed(d, 400, "invalid request hash")

\* The string the verifier of the run hashes for the request of c.
CanonicalString(c, headers_to_verify) ==
    IF variant = "part_000"
    THEN request_as_string_000(request[c])
    ELSE request_as_string(request[c], headers_to_verify)

\* The two requests hold the same header pairs.
SamePairs(c, d) ==
    /\ Len(request[c].headers) = Len(request[d].headers)
    /\ { request[c].headers[i] : i \in 1..Len(request[c].headers) }
         = { request[d].headers[i] : i \in 1..Len(request[d].headers) }

(***************************************************************************)
(* C12.  Two requests with the same method and url whose headers are the   *)
(* same pairs, in whatever order they were inserted, have the same         *)
(* canonical string, hence the same digest, and get the same verdict and   *)
(* the same response; and the canonical string of a request does not       *)
(* depend on the order of the names in headers_to_verify.                  *)
(***************************************************************************)
C12_OrderIndependent ==
    /\ \A c, d \in Calls :
          ( /\ SideBySide(c, d)
            /\ request[c].method = request[d].method
            /\ request[c].url = request[d].url
            /\ SamePairs(c, d) ) =>
              /\ CanonicalString(c, options.headers_to_verify)
                   = CanonicalString(d, options.headers_to_verify)
              /\ result[c] = result[d]
              /\ response[c] = response[d]
    /\ \A c \in Calls :
          Finished(c) =>
              CanonicalString(c, Reverse(options.headers_to_verify))
                = CanonicalString(c, options.headers_to_verify)

\* The gateway's request, verified, beside the same pairs inserted in another
\* order, verified as well.
C12_Witness ==
    \E c, d \in Calls :
        /\ SideBySide(c, d)
        /\ request[c].method = request[d].method
        /\ request[c].url = request[d].url
        /\ SamePairs(c, d)
        /\ request[c].headers # request[d].headers
        /\ Len(options.headers_to_verify) = 2 \/ variant = "part_000"
        /\ result[c] = "true" /\ result[d] = "true"

\* Neither a static key nor an endpoint is configured.
NoKeySource == options.public_key = null /\ options.public_key_endpoint = null

(***************************************************************************)
(* C13.  Construction with neither a static key nor an endpoint throws and *)
(* yields no verifier: no call ever runs without a key source, and the     *)
(* throw happens with no request taken.                                    *)
(***************************************************************************)
C13_NoVerifierWithoutKeySource ==
    /\ NoKeySource => verifier \in {"none", "threw"}
    /\ \A c \in Calls :
          (pc[c] # "idle" \/ result[c] # "pending") => ~NoKeySource /\ verifier = "function"
    /\ verifier = "threw" => \A c \in Calls : pc[c] = "idle" /\ request[c] = NoRequest

\* Construction without a key source has thrown.
C13_Witness == NoKeySource /\ verifier = "threw"

(***************************************************************************)
(* The gates after the bypass, in the order of the protocol, and what the  *)
(* request and the key of a call violate of them.                          *)
(***************************************************************************)
Gates == << "missing public key", "missing or malformed request hash",
            "missing or malformed request hash signature", "expired request",
            "invalid request hash", "invalid request hash signature" >>

Violates(c, g) ==
    CASE g = 1 -> public_key[c] \in {null, ""}
      [] g = 2 -> HashOf(c).typeof # "string"
      [] g = 3 -> SignatureOf(c).typeof # "string"
      [] g = 4 -> TooOld(c)
      [] g = 5 -> HashOf(c) # Str(DigestOf(c))
      [] g = 6 -> ~SignatureValid(c)

ViolatedGates(c) == { g \in 1..Len(Gates) : Violates(c, g) }

EarliestViolated(c) == CHOOSE g \in ViolatedGates(c) : \A h \in ViolatedGates(c) : g <= h

\* What a call has run when gate g has turned it away.
RanUpTo(g) ==
    IF g <= 3 THEN {"get_public_key"}
    ELSE IF g <= 5 THEN {"get_public_key", "canonicalize", "hash"}
    ELSE {"get_public_key", "canonicalize", "hash", "verify"}

(***************************************************************************)
(* C14.  The bypass comes first; after it the gates run in the order key,  *)
(* hash header, signature header, freshness, hash match, signature.  A     *)
(* call that returns false has written the error of the earliest gate it   *)
(* violates and has run nothing that comes after that gate; a call that    *)
(* violates several gates returns false; a call that violates a gate does  *)
(* not return true.                                                        *)
(***************************************************************************)
C14_EarliestGateDecides ==
    \A c \in Calls :
        Finished(c) =>
            IF BypassEnabled
            THEN result[c] = "true" /\ ran[c] = {}
            ELSE /\ result[c] = "false" =>
                      /\ ViolatedGates(c) # {}
                      /\ Failed(c, IF EarliestViolated(c) = 1 THEN 500 ELSE 400,
                                Gates[EarliestViolated(c)])
                      /\ ran[c] = RanUpTo(EarliestViolated(c))
                 /\ Cardinality(ViolatedGates(c)) >= 2 => result[c] = "false"
                 /\ ViolatedGates(c) # {} => result[c] # "true"

\* A call whose request violates two gates or more, none of them the first
\* of the order, turned away by the earliest of them.
C14_Witness ==
    \E c \in Calls :
        /\ Finished(c) /\ ~BypassEnabled
        /\ Cardinality(ViolatedGates(c)) >= 2
        /\ EarliestViolated(c) = 4
        /\ 5 \in ViolatedGates(c)
        /\ Failed(c, 400, "expired request")

(***************************************************************************)
(* The whitelist policy, spelled out: the listed names the request holds,  *)
(* in sorted order, each with the request's value.                         *)
(***************************************************************************)
Listed(name) ==
    \E i \in 1..Len(options.headers_to_verify) : options.headers_to_verify[i] = name

RECURSIVE ListedAndPresent(_, _)
ListedAndPresent(c, names) ==
    IF names = <<>> THEN ""
    ELSE LET rest == ListedAndPresent(c, Tail(names))
         IN  IF Listed(Head(names)) /\ HasHeader(request[c].headers, Head(names))
             THEN "\"" \o Head(names) \o "\":\""
                    \o HeaderValue(request[c].headers, Head(names)).str \o "\""
                    \o (IF rest = "" THEN "" ELSE "," \o rest)
             ELSE rest

WhitelistCanonical(c) ==
    request[c].method \o ":::" \o request[c].url \o ":::{"
        \o ListedAndPresent(c, SortedNames) \o "}"

(***************************************************************************)
(* C15.  Under the whitelist policy the string the verifier hashes holds   *)
(* exactly the headers that are listed in headers_to_verify and present on *)
(* the request, with the request's values: a listed header the request     *)
(* lacks is left out, a header that is not listed never enters, and with   *)
(* an empty list the headers serialize as the empty object.  A call that   *)
(* reaches the hash comparison passes it exactly if the hash header is the *)
(* digest of that string.                                                  *)
(***************************************************************************)
C15_WhitelistExactlyListedAndPresent ==
    \A c \in Calls :
        (Finished(c) /\ ~BypassEnabled /\ variant # "part_000") =>
            /\ request_as_string(request[c], options.headers_to_verify)
                 = WhitelistCanonical(c)
            /\ options.headers_to_verify = <<>> =>
                 request_as_string(request[c], options.headers_to_verify)
                   = request[c].method \o ":::" \o request[c].url \o ":::{}"
            /\ ("hash" \in ran[c] /\ ~TooOld(c)) =>
                 ( Failed(c, 400, "invalid request hash")
                     <=> HashOf(c).str # "sha256(" \o WhitelistCanonical(c) \o ")" )

\* A verified request that lacks one listed header and carries a header that
\* is not listed.
C15_Witness ==
    \E c \in Calls :
        /\ Finished(c) /\ ~BypassEnabled /\ variant # "part_000"
        /\ Listed("x-a") /\ HasHeader(request[c].headers, "x-a")
        /\ Listed("x-b") /\ ~HasHeader(request[c].headers, "x-b")
        /\ ~Listed("connection") /\ HasHeader(request[c].headers, "connection")
        /\ result[c] = "true"

(***************************************************************************)
(* C16.  No call issues more than one key fetch.  From a failed fetch on,  *)
(* until a fetch stores a key, every call that starts (bypass off, no      *)
(* static key) issues its fetch at once, whatever calls came before it;    *)
(* and a call whose fetch fails has issued exactly that one fetch and      *)
(* answers 500 'missing public key'.                                       *)
(***************************************************************************)
C16_OneFetchPerCallNoRetry ==
    [][ \A c \in Calls :
          /\ fetches'[c] <= 1
          /\ (Starts(c) /\ refresh_failed) =>
                /\ pc'[c] = "fetch"
                /\ fetches'[c] = 1
          /\ FetchFails(c) =>
                /\ fetches'[c] = 1
                /\ pc'[c] = "resume"
          /\ (Finished(c)' /\ settled'[c] \in {"not ok", "threw"}) =>
                /\ fetches'[c] = 1
                /\ Failed(c, 500, "missing public key")'
      ]_vars

\* The endpoint keeps failing: two calls, each with its one fetch failed and
\* its 500 written.
C16_Witness ==
    /\ refresh_failed
    /\ \A c \in Calls :
          /\ Finished(c)
          /\ settled[c] \in {"not ok", "threw"}
          /\ fetches[c] = 1
          /\ Failed(c, 500, "missing public key")

\* The fetch of call c ends with a key: the endpoint answered with a success
\* status and a body that is not empty.
FetchSucceeds(c) ==
    /\ settled[c] = "none" /\ settled'[c] = "ok"
    /\ public_key'[c] \notin {null, ""}

(***************************************************************************)
(* C17.  When the fetch of a call succeeds, the cache holds the fetched    *)
(* key, the recorded last-update time is the time at which the fetch       *)
(* completed, so that the age of the key is zero and the key is usable for *)
(* the whole grace period from then on, and the call is returned that key. *)
(***************************************************************************)
C17_SuccessResetsAgeToZero ==
    [][ \A c \in Calls :
          FetchSucceeds(c) =>
              /\ fetched_public_key' = public_key'[c]
              /\ pc'[c] = "resume"
              /\ last_public_key_update' = now'
              /\ now' - last_public_key_update' = 0
      ]_vars

\* The cache holds no key.
CacheEmpty == fetched_public_key \in {null, ""}

(***************************************************************************)
(* C18.  The cache is empty at construction, and every step that changes   *)
(* the stored key or the stored time either leaves the cache empty or is   *)
(* the end of one successful fetch that writes both, the key it fetched    *)
(* and the time it read: so in every state the cache is empty, or its key  *)
(* and its time were written together by the same successful fetch,        *)
(* however the calls interleave.                                           *)
(***************************************************************************)
C18_CacheNeverPartlyUpdated ==
    [][ /\ last_public_key_update = 0 => CacheEmpty
        /\ (fetched_public_key' # fetched_public_key
              \/ last_public_key_update' # last_public_key_update) =>
              \/ CacheEmpty'
              \/ \E c \in Calls :
                    /\ FetchSucceeds(c)
                    /\ fetched_public_key' = public_key'[c]
                    /\ last_public_key_update' = gpk_now[c]
        /\ (\E c \in Calls : FetchSucceeds(c)) => ~CacheEmpty'
        /\ (\E c \in Calls : FetchFails(c)) => CacheEmpty'
      ]_vars

\* Two fetches in flight together have both succeeded; the cache holds the
\* key of the one that ended last, another key than the first one's.
C18_Witness ==
    \E c, d \in Calls :
        /\ c # d
        /\ settled[c] = "ok" /\ settled[d] = "ok"
        /\ fetches[c] = 1 /\ fetches[d] = 1
        /\ public_key[c] \notin {null, ""}
        /\ public_key[d] \notin {null, ""}
        /\ public_key[c] # public_key[d]
        /\ fetched_public_key = public_key[d]
        /\ last_public_key_update > 0

(***************************************************************************)
(* C19.  A call is handed a key without a fetch only if the cache holds a  *)
(* key and now minus the recorded time of its fetch is at most             *)
(* grace_period, and the key handed over is the cached one; and from a     *)
(* failed fetch on no call that takes its key from the endpoint returns    *)
(* true until a fetch has stored a key again.                              *)
(***************************************************************************)
C19_NoStaleKeyPastGrace ==
    [][ \A c \in Calls :
          /\ (Starts(c) /\ pc'[c] # "fetch") =>
                /\ fetched_public_key \notin {null, ""}
                /\ now - last_public_key_update <= options.grace_period
                /\ public_key'[c] = fetched_public_key
                /\ fetches'[c] = 0
          /\ ( /\ ~BypassEnabled /\ options.public_key = null
               /\ result[c] = "pending" /\ result'[c] = "true" ) => ~refresh_failed
          /\ refresh_failed' => CacheEmpty'
      ]_vars

\* The cached key has outlived the grace period, the fetch for a new one has
\* failed, and the call is answered 500.
C19_Witness ==
    \E c \in Calls :
        /\ refresh_failed
        /\ last_public_key_update > 0
        /\ now - last_public_key_update > options.grace_period
        /\ Finished(c) /\ settled[c] \in {"not ok", "threw"}
        /\ Failed(c, 500, "missing public key")

\* The time recorded in the cache is that of a fetch, and no more than
\* grace_period ago.
WithinGraceOfSuccess ==
    /\ last_public_key_update > 0
    /\ now - last_public_key_update <= options.grace_period

(***************************************************************************)
(* C20 as stated.  A key that the successful fetch of one call has stored  *)
(* is not cleared when the fetch of another call, in flight at that time,  *)
(* fails afterwards; so a call that starts within grace_period of that     *)
(* success is served from the cache without a fetch.                       *)
(***************************************************************************)
C20_LateFailureSparesStoredKey ==
    [][ \A c \in Calls :
          /\ (FetchFails(c) /\ ~CacheEmpty) => fetched_public_key' = fetched_public_key
          /\ (Starts(c) /\ WithinGraceOfSuccess) =>
                /\ pc'[c] = "resume"
                /\ fetches'[c] = 0
                /\ public_key'[c] \notin {null, ""}
      ]_vars

(***************************************************************************)
(* C20 as the code has it.  The cache holds what the fetch that ended last *)
(* has written: a successful fetch stores its key over whatever the cache  *)
(* held, a failed fetch clears the cache, also of a key that another call  *)
(* has stored while the failed fetch was in flight.  A call that starts is *)
(* served from the cache without a fetch exactly if the cache holds a key  *)
(* no older than grace_period; after such a clearing it fetches again.     *)
(***************************************************************************)
C20_LastWriterWins ==
    [][ \A c \in Calls :
          /\ FetchSucceeds(c) => fetched_public_key' = public_key'[c]
          /\ FetchFails(c) => fetched_public_key' = null
          /\ Starts(c) =>
                IF WithinGraceOfSuccess /\ ~CacheEmpty
                THEN pc'[c] = "resume" /\ fetches'[c] = 0
                       /\ public_key'[c] = fetched_public_key
                ELSE pc'[c] = "fetch" /\ fetches'[c] = 1
      ]_vars

\* One call has fetched and stored a key, the fetch of the other, in flight
\* meanwhile, has failed after that: within grace_period of the success the
\* cache is empty.
C20_Witness ==
    \E c, d \in Calls :
        /\ c # d
        /\ settled[c] = "ok" /\ public_key[c] \notin {null, ""}
        /\ settled[d] \in {"not ok", "threw"}
        /\ refresh_failed
        /\ WithinGraceOfSuccess
        /\ CacheEmpty

(***************************************************************************)
(* C21.  Every call that returns true with the bypass disabled was given a *)
(* request whose time header parses to a number t with now - t at most     *)
(* grace_period: no request without a time header, and none whose time     *)
(* header is not a number, is accepted.                                    *)
(***************************************************************************)
C21_AcceptedOnlyWithParsedFreshTime ==
    \A c \in Calls :
        (Finished(c) /\ ~BypassEnabled /\ result[c] = "true") =>
            /\ HasHeader(request[c].headers, time_header)
            /\ ~TimeOf(c).nan
            /\ verify_now[c] - TimeOf(c).n <= options.grace_period

\* The configuration index.js runs with when headers_to_verify is not given.
DefaultHeaderList == variant = "index.js" /\ options.headers_to_verify = <<>>

\* The request of d is that of c again, the time header apart.
Replays(c, d) ==
    /\ request[c].method = request[d].method
    /\ request[c].url = request[d].url
    /\ HashOf(c) = HashOf(d)
    /\ SignatureOf(c) = SignatureOf(d)

(***************************************************************************)
(* C22.  With headers_to_verify left empty: when a request signed at time  *)
(* t has been accepted, no request with the same method, url, hash header  *)
(* and signature header is accepted at a time later than t + grace_period, *)
(* whatever number its time header declares.                               *)
(***************************************************************************)
C22_NoReplayAfterSigningTimePlusGrace ==
    \A c, d \in Calls :
        ( /\ c # d /\ Finished(c) /\ Finished(d)
          /\ ~BypassEnabled /\ DefaultHeaderList
          /\ result[c] = "true"
          /\ ~TimeOf(c).nan /\ TimeOf(c).n = StartNow    \* as the gateway sent it
          /\ Replays(c, d)
          /\ ~TimeOf(d).nan
          /\ verify_now[d] - TimeOf(c).n > options.grace_period ) =>
              result[d] # "true"

====
